---- MODULE Spec2Model ----
(***************************************************************************)
(* A model of the request handling of the two FastAPI applications of the  *)
(* repository: src/main.py (the final application) and src/main_pt_one.py  *)
(* (the first part of the course, an application of its own).              *)
(*                                                                         *)
(* A request goes through the steps the framework runs for every path      *)
(* operation: Receive (the inputs arrive), Validate (every declared        *)
(* parameter is bound and checked against its declaration; any failure     *)
(* ends the request with status 422), the handler body of the operation,   *)
(* and Reply.  The handler's return value is filtered through the          *)
(* response_model of the decorator when there is one.                      *)
(*                                                                         *)
(* Values are tagged pairs <<tag, v>>.  A string supplied by a request is  *)
(* the sequence of its characters; a string literal of the source that is  *)
(* only ever copied is kept as a TLA+ string under the tag "text".         *)
(* A mapping (a JSON object, a Python dict, a pydantic model) is the       *)
(* sequence of its <<key, value>> pairs, in insertion order.               *)
(***************************************************************************)
EXTENDS Integers, Sequences, FiniteSets, TLC

(***************************************************************************)
(* Bounds of the model                                                     *)
(***************************************************************************)
\* how far beyond each declared numeric or length bound the inputs reach
Slack == 2

\* the largest number of files in one upload of several images
MaxImages == 2

(***************************************************************************)
(* Values                                                                  *)
(***************************************************************************)
Absent == <<"absent", 0>>
Null == <<"null", 0>>
IntV(n) == <<"int", n>>
StrV(s) == <<"str", s>>
BoolV(b) == <<"bool", b>>
TextV(t) == <<"text", t>>
ObjV(m) == <<"obj", m>>
ListV(l) == <<"list", l>>
Tag(x) == x[1]
Val(x) == x[2]

\* the string of n copies of the character c
Rep(c, n) == [i \in 1..n |-> c]

(***************************************************************************)
(* Mappings: Python dict semantics on sequences of <<key, value>> pairs    *)
(***************************************************************************)
Keys(m) == [i \in 1..Len(m) |-> m[i][1]]
HasKey(m, k) == \E i \in 1..Len(m) : m[i][1] = k
Get(m, k) == IF HasKey(m, k) THEN m[CHOOSE i \in 1..Len(m) : m[i][1] = k][2] ELSE Absent

\* d[k] = v: an existing key keeps its position, a new key goes last
DictSet(m, k, v) ==
    IF HasKey(m, k)
    THEN [i \in 1..Len(m) |-> IF m[i][1] = k THEN <<k, v>> ELSE m[i]]
    ELSE Append(m, <<k, v>>)

RECURSIVE DictUpdateFrom(_, _, _)
DictUpdateFrom(a, b, i) ==
    IF i > Len(b) THEN a
    ELSE DictUpdateFrom(DictSet(a, b[i][1], b[i][2]), b, i + 1)

\* a.update(b), where the later mapping is ignored: a plausible slip
DictUpdateDropped(a, b) == a

\* a.update(b)
DictUpdate(a, b) == DictUpdateFrom(a, b, 1)

(***************************************************************************)
(* Declared constraints                                                    *)
(***************************************************************************)
NameMin == 1
NameMax == 50
AgeGt == 0
AgeLe == 115
AgeLtPtOne == 115
PasswordMin == 8
UsernameMax == 20
PersonIdGt == 0
ContactNameMin == 1
ContactNameMax == 20
MessageMin == 20
NotFound == 404
Created == 201
Ok == 200
KiB == 1024

White == <<"w", "h", "i", "t", "e">>
Brown == <<"b", "r", "o", "w", "n">>
Black == <<"b", "l", "a", "c", "k">>
Blonde == <<"b", "l", "o", "n", "d", "e">>
Red == <<"r", "e", "d">>
HairColor == {White, Brown, Black, Blonde, Red}

\* a field declaration; a bound that is not declared is the empty set
Fld(name, type, required) ==
    [name |-> name, type |-> type, required |-> required, default |-> Null,
     gt |-> {}, lt |-> {}, le |-> {}, min_length |-> {}, max_length |-> {}]

Location == <<Fld("city", "str", TRUE), Fld("state", "str", TRUE), Fld("country", "str", TRUE)>>

PersonBase ==
    << [Fld("first_name", "str", TRUE) EXCEPT !.min_length = {NameMin}, !.max_length = {NameMax}],
       [Fld("last_name", "str", TRUE) EXCEPT !.min_length = {NameMin}, !.max_length = {NameMax}],
       [Fld("age", "int", TRUE) EXCEPT !.gt = {AgeGt}, !.le = {AgeLe}],
       Fld("hair_color", "enum", FALSE),
       Fld("is_married", "bool", FALSE) >>

Person == PersonBase \o << [Fld("password", "str", TRUE) EXCEPT !.min_length = {PasswordMin}] >>

\* an output schema that inherits from Person instead of PersonBase
PersonOutFromPerson == Person

PersonOut == PersonBase

LoginOut ==
    << [Fld("username", "str", TRUE) EXCEPT !.max_length = {UsernameMax}],
       [Fld("message", "str", FALSE) EXCEPT !.default = TextV("Login Succesfully!")] >>

\* the Person of main_pt_one.py
PersonPtOne ==
    << [Fld("first_name", "str", TRUE) EXCEPT !.min_length = {NameMin}, !.max_length = {NameMax}],
       [Fld("last_name", "str", TRUE) EXCEPT !.min_length = {NameMin}, !.max_length = {NameMax}],
       [Fld("age", "int", TRUE) EXCEPT !.gt = {AgeGt}, !.lt = {AgeLtPtOne}],
       Fld("hair_color", "enum", FALSE),
       Fld("is_married", "bool", FALSE) >>

(***************************************************************************)
(* The validator: one field                                                *)
(***************************************************************************)
Digits == <<"0", "1", "2", "3", "4", "5", "6", "7", "8", "9">>
IsDigit(c) == \E d \in 1..10 : Digits[d] = c
DigitVal(c) == (CHOOSE d \in 1..10 : Digits[d] = c) - 1

RECURSIVE NatOf(_, _, _)
NatOf(s, i, acc) == IF i > Len(s) THEN acc ELSE NatOf(s, i + 1, acc * 10 + DigitVal(s[i]))

\* the strings int() accepts: an optional sign, then digits
IsIntStr(s) ==
    /\ Len(s) > 0
    /\ IF s[1] = "-" THEN Len(s) > 1 /\ \A i \in 2..Len(s) : IsDigit(s[i])
                     ELSE \A i \in 1..Len(s) : IsDigit(s[i])
ParseInt(s) == IF s[1] = "-" THEN 0 - NatOf(s, 2, 0) ELSE NatOf(s, 1, 0)

\* an address has a local part and a domain around one "@"
IsEmail(s) ==
    \E i \in 2..(Len(s) - 1) : s[i] = "@" /\ \A j \in 1..Len(s) : s[j] = "@" => j = i

Good(v) == <<"ok", v>>
Bad(kind) == <<"err", kind>>
IsGood(r) == r[1] = "ok"

\* the conversion of a raw value to the declared type
Coerce(c, raw) ==
    CASE c.type = "int" ->
           IF Tag(raw) = "int" THEN Good(raw)
           ELSE IF Tag(raw) = "str" /\ IsIntStr(Val(raw)) THEN Good(IntV(ParseInt(Val(raw))))
           ELSE Bad("type_error.integer")
      [] c.type = "str" -> IF Tag(raw) \in {"str", "text"} THEN Good(raw) ELSE Bad("type_error.str")
      [] c.type = "email" ->
           IF Tag(raw) = "str" /\ IsEmail(Val(raw)) THEN Good(raw) ELSE Bad("value_error.email")
      [] c.type = "enum" ->
           IF Tag(raw) = "str" /\ Val(raw) \in HairColor THEN Good(raw) ELSE Bad("type_error.enum")
      [] c.type = "bool" -> IF Tag(raw) = "bool" THEN Good(raw) ELSE Bad("type_error.bool")
      [] c.type = "file" -> IF Tag(raw) = "file" THEN Good(raw) ELSE Bad("value_error.file")
      [] c.type = "files" ->
           IF Tag(raw) = "list" /\ \A i \in 1..Len(Val(raw)) : Tag(Val(raw)[i]) = "file"
           THEN Good(raw) ELSE Bad("value_error.file")

\* the declared bounds, on a value of the declared type
Constrain(c, v) ==
    IF Tag(v) = "int" THEN
        IF \E b \in c.gt : ~(Val(v) > b) THEN Bad("value_error.number.not_gt")
        ELSE IF \E b \in c.lt : ~(Val(v) < b) THEN Bad("value_error.number.not_lt")
        ELSE IF \E b \in c.le : ~(Val(v) <= b) THEN Bad("value_error.number.not_le")
        ELSE Good(v)
    ELSE IF Tag(v) = "str" THEN
        IF \E b \in c.min_length : Len(Val(v)) < b THEN Bad("value_error.any_str.min_length")
        ELSE IF \E b \in c.max_length : Len(Val(v)) > b THEN Bad("value_error.any_str.max_length")
        ELSE Good(v)
    ELSE Good(v)

\* a supplied value against its declaration
FieldValidate(c, raw) ==
    IF raw = Null THEN (IF c.required THEN Bad("type_error.none.not_allowed") ELSE Good(Null))
    ELSE IF IsGood(Coerce(c, raw)) THEN Constrain(c, Coerce(c, raw)[2])
    ELSE Coerce(c, raw)

(***************************************************************************)
(* The validator: a model.  The fields are taken in declaration order; a   *)
(* failure is appended to the list and the loop goes on to the next field. *)
(***************************************************************************)
Outcome(values, errors) == [values |-> values, errors |-> errors]

RECURSIVE ModelLoop(_, _, _, _, _)
ModelLoop(schema, obj, loc, i, acc) ==
    IF i > Len(schema) THEN acc
    ELSE LET c == schema[i]
             raw == Get(obj, c.name)
             r == FieldValidate(c, raw)
         IN  IF raw = Absent THEN
                 IF c.required
                 THEN ModelLoop(schema, obj, loc, i + 1,
                        Outcome(acc.values, Append(acc.errors, <<Append(loc, c.name), "value_error.missing">>)))
                 ELSE ModelLoop(schema, obj, loc, i + 1,
                        Outcome(Append(acc.values, <<c.name, c.default>>), acc.errors))
             ELSE IF IsGood(r)
                 THEN ModelLoop(schema, obj, loc, i + 1,
                        Outcome(Append(acc.values, <<c.name, r[2]>>), acc.errors))
                 ELSE ModelLoop(schema, obj, loc, i + 1,
                        Outcome(acc.values, Append(acc.errors, <<Append(loc, c.name), r[2]>>)))

\* Model(**obj): the typed values of the declared fields, or the failures
ValidateModel(schema, obj, loc) == ModelLoop(schema, obj, loc, 1, Outcome(<<>>, <<>>))

(***************************************************************************)
(* Parameter declarations of the path operations                           *)
(***************************************************************************)
\* a parameter declared with Path, Query, Header, Cookie, Form or File
Param(name, source, c) == [name |-> name, source |-> source, c |-> c, schema |-> <<>>]
\* a parameter declared with Body whose type is a model
ModelParam(name, schema) ==
    [name |-> name, source |-> "body", c |-> Fld(name, "model", TRUE), schema |-> schema]

PersonIdParam == Param("person_id", "path", [Fld("person_id", "int", TRUE) EXCEPT !.gt = {PersonIdGt}])
\* ge=0 in place of gt=0
PersonIdParamGe == Param("person_id", "path", [Fld("person_id", "int", TRUE) EXCEPT !.gt = {PersonIdGt - 1}])

NameQuery ==
    Param("name", "query", [Fld("name", "str", FALSE) EXCEPT !.min_length = {NameMin}, !.max_length = {NameMax}])
AgeQuery == Param("age", "query", Fld("age", "str", TRUE))

\* the parameters of show_person_by_id with the identifier checked by ge=0
ShowPersonByIdParamsGe == <<PersonIdParamGe>>

ShowPersonByIdParams == <<PersonIdParam>>

\* message declared with min_length one too large
ContactParamsOffByOne ==
    << Param("user_agent", "header", Fld("user_agent", "str", FALSE)),
       Param("ads", "cookie", Fld("ads", "str", FALSE)),
       Param("first_name", "form",
             [Fld("first_name", "str", TRUE) EXCEPT !.max_length = {ContactNameMax}, !.min_length = {ContactNameMin}]),
       Param("last_name", "form",
             [Fld("last_name", "str", TRUE) EXCEPT !.max_length = {ContactNameMax}, !.min_length = {ContactNameMin}]),
       Param("email", "form", Fld("email", "email", TRUE)),
       Param("message", "form", [Fld("message", "str", TRUE) EXCEPT !.min_length = {MessageMin + 1}]) >>

\* header and cookie parameters are bound before the form fields
ContactParams ==
    << Param("user_agent", "header", Fld("user_agent", "str", FALSE)),
       Param("ads", "cookie", Fld("ads", "str", FALSE)),
       Param("first_name", "form",
             [Fld("first_name", "str", TRUE) EXCEPT !.max_length = {ContactNameMax}, !.min_length = {ContactNameMin}]),
       Param("last_name", "form",
             [Fld("last_name", "str", TRUE) EXCEPT !.max_length = {ContactNameMax}, !.min_length = {ContactNameMin}]),
       Param("email", "form", Fld("email", "email", TRUE)),
       Param("message", "form", [Fld("message", "str", TRUE) EXCEPT !.min_length = {MessageMin}]) >>

MainOps ==
    {"home", "create_person", "show_person", "show_person_by_id", "update_person",
     "login", "contact", "post_image", "post_multiple_images"}
PtOneOps ==
    {"pt_one.home", "pt_one.twitter", "pt_one.create_person", "pt_one.show_person",
     "pt_one.show_person_by_id", "pt_one.update_person"}
Ops == MainOps \cup PtOneOps

Params(op) ==
    CASE op = "home" -> <<>>
      [] op = "create_person" -> <<ModelParam("person", Person)>>
      [] op = "show_person" -> <<NameQuery, AgeQuery>>
      [] op = "show_person_by_id" -> ShowPersonByIdParams
      [] op = "update_person" -> <<PersonIdParam, ModelParam("person", Person), ModelParam("location", Location)>>
      [] op = "login" -> << Param("username", "form", Fld("username", "str", TRUE)),
                            Param("password", "form", Fld("password", "str", TRUE)) >>
      [] op = "contact" -> ContactParams
      [] op = "post_image" -> <<Param("image", "form", Fld("image", "file", TRUE))>>
      [] op = "post_multiple_images" -> <<Param("images", "form", Fld("images", "files", TRUE))>>
      [] op = "pt_one.home" -> <<>>
      [] op = "pt_one.twitter" -> <<Param("id", "path", Fld("id", "any", TRUE))>>
      [] op = "pt_one.create_person" -> <<ModelParam("person", PersonPtOne)>>
      [] op = "pt_one.show_person" -> <<NameQuery, AgeQuery>>
      [] op = "pt_one.show_person_by_id" -> <<PersonIdParam>>
      [] op = "pt_one.update_person" ->
           <<PersonIdParam, ModelParam("person", PersonPtOne), ModelParam("location", Location)>>

\* response_model of the decorator; <<>> when there is none
ResponseModel(op) ==
    CASE op = "create_person" -> PersonOut
      [] op = "login" -> LoginOut
      [] OTHER -> <<>>

\* status_code of the decorator; 200 when there is none
StatusCode(op) == IF op = "create_person" THEN Created ELSE Ok

(***************************************************************************)
(* Binding and validation of the parameters of one request                 *)
(***************************************************************************)
\* several Body parameters are looked up by name in the JSON object
Embed(params) == Cardinality({i \in 1..Len(params) : params[i].schema # <<>>}) > 1

LocOf(source) == IF source = "form" THEN "body" ELSE source

\* one parameter: the value bound to it, or the failures
BindParam(p, request, embed) ==
    IF p.schema # <<>> THEN
        LET raw == IF ~embed THEN request.body
                   ELSE IF Tag(request.body) = "obj" THEN Get(Val(request.body), p.name)
                   ELSE Absent
            loc == IF embed THEN <<"body", p.name>> ELSE <<"body">>
            r == ValidateModel(p.schema, Val(raw), loc)
        IN  IF raw = Absent \/ raw = Null THEN Outcome(<<>>, <<<<loc, "value_error.missing">>>>)
            ELSE IF Tag(raw) # "obj" THEN Outcome(<<>>, <<<<loc, "type_error.dict">>>>)
            ELSE IF r.errors # <<>> THEN Outcome(<<>>, r.errors)
            ELSE Outcome(<<<<p.name, ObjV(r.values)>>>>, <<>>)
    ELSE
        LET raw == Get(request[p.source], p.name)
            loc == <<LocOf(p.source), p.name>>
            \* an empty form value counts as no value
            none == \/ raw = Absent
                    \/ p.source = "form" /\ raw = StrV(<<>>)
                    \/ p.source = "form" /\ raw = ListV(<<>>)
            r == IF p.c.type = "any" THEN Good(raw) ELSE FieldValidate(p.c, raw)
        IN  IF none THEN
                IF p.c.required THEN Outcome(<<>>, <<<<loc, "value_error.missing">>>>)
                ELSE Outcome(<<<<p.name, p.c.default>>>>, <<>>)
            ELSE IF IsGood(r) THEN Outcome(<<<<p.name, r[2]>>>>, <<>>)
            ELSE Outcome(<<>>, <<<<loc, r[2]>>>>)

RECURSIVE SolveFirstOnly(_, _, _, _)
\* binding that gives up at the first parameter that fails
SolveFirstOnly(params, request, i, acc) ==
    IF i > Len(params) \/ acc.errors # <<>> THEN acc
    ELSE LET r == BindParam(params[i], request, Embed(params))
         IN  SolveFirstOnly(params, request, i + 1,
                            Outcome(acc.values \o r.values, acc.errors \o r.errors))

RECURSIVE Solve(_, _, _, _)
\* every parameter in turn; the failures of all of them are collected
Solve(params, request, i, acc) ==
    IF i > Len(params) THEN acc
    ELSE LET r == BindParam(params[i], request, Embed(params))
         IN  Solve(params, request, i + 1,
                   Outcome(acc.values \o r.values, acc.errors \o r.errors))

SolveDependencies(op, request) == Solve(Params(op), request, 1, Outcome(<<>>, <<>>))

(***************************************************************************)
(* Responses                                                               *)
(***************************************************************************)
Return(v) == <<"return", v>>
Raise(status, detail) == <<"raise", status, detail>>
\* an exception that is no HTTPException
Crash == <<"crash", Null>>

Response(status, body) == [status |-> status, body |-> body]

\* the framework's answer to a request whose parameters failed validation
RequestValidationError(errs) == Response(422, <<"errors", errs>>)
\* the framework's answer to an exception no handler catches
InternalServerError == Response(500, TextV("Internal Server Error"))

RECURSIVE Reverse(_)
Reverse(q) == IF q = <<>> THEN <<>> ELSE Append(Reverse(Tail(q)), Head(q))

\* a filter that walks the items of the entity, last first, instead of the schema
ProjectReversed(schema, m) ==
    SelectSeq(Reverse(m), LAMBDA e : \E i \in 1..Len(schema) : schema[i].name = e[1])

\* the entity as the output schema sees it: its declared fields, in its order
Project(schema, m) == ValidateModel(schema, m, <<"response">>).values

\* the return value of a handler through the decorator's response_model
Serialize(op, v) ==
    IF ResponseModel(op) = <<>> THEN Response(StatusCode(op), v)
    ELSE IF Tag(v) # "obj" \/ ValidateModel(ResponseModel(op), Val(v), <<"response">>).errors # <<>>
         THEN InternalServerError
    ELSE Response(StatusCode(op), ObjV(Project(ResponseModel(op), Val(v))))

Respond(op, result) ==
    CASE result[1] = "raise" -> Response(result[2], <<"detail", result[3]>>)
      [] result[1] = "crash" -> InternalServerError
      [] result[1] = "return" -> Serialize(op, result[2])

\* a framework that calls the handler whatever the validation found
RejectedNever(errs) == FALSE

\* a request whose parameters failed is never dispatched to the handler
Rejected(errs) == errs # <<>>

\* the quotient num / den rounded to the nearest integer, ties to even
RoundHalfEven(num, den) ==
    LET q == num \div den
        r == num % den
    IN  IF 2 * r < den THEN q
        ELSE IF 2 * r > den THEN q + 1
        ELSE IF q % 2 = 0 THEN q ELSE q + 1

\* round(len(bytes) / 1024, ndigits=2), in hundredths
SizeKb(nbytes) == <<"centi", RoundHalfEven(100 * nbytes, KiB)>>

(***************************************************************************)
(* The handler bodies, as functions of their validated arguments           *)
(***************************************************************************)
InPersons(ps, id) == \E i \in 1..Len(ps) : ps[i] = id

\* a handler that also drops the identifier it has looked up
ShowPersonByIdConsuming(ps, person_id) ==
    [persons |-> SelectSeq(ps, LAMBDA x : x # person_id),
     result |-> IF ~InPersons(ps, person_id)
                THEN Raise(NotFound, TextV("This person doesn't exist!"))
                ELSE Return(<<"keyed", IntV(person_id), TextV("It exists!")>>)]

\* the list is only read; the detail of the 404 is the source's, without its
\* leading inverted exclamation mark (not an ASCII character)
ShowPersonById(ps, person_id) ==
    [persons |-> ps,
     result |-> IF ~InPersons(ps, person_id)
                THEN Raise(NotFound, TextV("This person doesn't exist!"))
                ELSE Return(<<"keyed", IntV(person_id), TextV("It exists!")>>)]

UpdatePerson(person, location) == Return(ObjV(DictUpdate(Val(person), Val(location))))

\* LoginOut(username=username) raises when the model rejects the username
Login(username) ==
    LET r == ValidateModel(LoginOut, <<<<"username", username>>>>, <<>>)
    IN  IF r.errors # <<>> THEN Crash ELSE Return(ObjV(r.values))

ImageInfo(nameKey, image) ==
    ObjV(<< <<nameKey, TextV(Val(image)[1])>>,
            <<"Format", TextV(Val(image)[2])>>,
            <<"Size(kb)", SizeKb(Val(image)[3])>> >>)

TwitterPrefix == <<"t", "w", "i", "t", "t", "e", "r", " ", "i", "d", " ">>
TwitterSuffix == <<" ", "t", "e", "x", "t">>

(***************************************************************************)
(* State                                                                   *)
(***************************************************************************)
VARIABLES
    persons,   \* the module-level list of known identifiers
    pc,        \* per worker: "idle", "received", "validated", "done"
    req,       \* per worker: the request being handled
    errors,    \* per worker: the validation failures of the request
    args,      \* per worker: the validated arguments of the handler
    resp,      \* per worker: the response
    ran,       \* per worker: the handler body was entered for the request
    seen       \* an observer's note of one completed request and its response

vars == <<persons, pc, req, errors, args, resp, ran, seen>>

Workers == {1, 2}

NoRequest ==
    [op |-> "none", path |-> <<>>, query |-> <<>>, header |-> <<>>, cookie |-> <<>>,
     body |-> Absent, form |-> <<>>]
NoResponse == Response(0, Absent)
NoSeen == <<NoRequest, NoResponse>>

Init ==
    /\ persons = <<1, 2, 3, 4, 5>>
    /\ pc = [w \in Workers |-> "idle"]
    /\ req = [w \in Workers |-> NoRequest]
    /\ errors = [w \in Workers |-> <<>>]
    /\ args = [w \in Workers |-> <<>>]
    /\ resp = [w \in Workers |-> NoResponse]
    /\ ran = [w \in Workers |-> FALSE]
    /\ seen = NoSeen

(***************************************************************************)
(* The steps of a request                                                  *)
(***************************************************************************)
Receive(w, r) ==
    /\ pc[w] = "idle"
    /\ req' = [req EXCEPT ![w] = r]
    /\ pc' = [pc EXCEPT ![w] = "received"]
    /\ UNCHANGED <<persons, errors, args, resp, ran, seen>>

\* the framework binds and validates the declared parameters, then either
\* answers 422 with the failures or goes on to call the handler
Validate(w) ==
    /\ pc[w] = "received"
    /\ LET r == SolveDependencies(req[w].op, req[w])
       IN  /\ errors' = [errors EXCEPT ![w] = r.errors]
           /\ IF Rejected(r.errors)
              THEN /\ pc' = [pc EXCEPT ![w] = "done"]
                   /\ resp' = [resp EXCEPT ![w] = RequestValidationError(r.errors)]
                   /\ args' = args
              ELSE /\ pc' = [pc EXCEPT ![w] = "validated"]
                   /\ args' = [args EXCEPT ![w] = r.values]
                   /\ resp' = resp
    /\ UNCHANGED <<persons, req, ran, seen>>

\* the common part of every handler: it runs once, on a validated request
Handle(w, op, result) ==
    /\ pc[w] = "validated"
    /\ req[w].op = op
    /\ ran' = [ran EXCEPT ![w] = TRUE]
    /\ resp' = [resp EXCEPT ![w] = Respond(op, result)]
    /\ pc' = [pc EXCEPT ![w] = "done"]
    /\ UNCHANGED <<req, errors, args, seen>>

home(w) ==
    /\ Handle(w, "home", Return(ObjV(<< <<"Hello", TextV("World")>> >>)))
    /\ UNCHANGED persons

create_person(w) ==
    /\ Handle(w, "create_person", Return(Get(args[w], "person")))
    /\ UNCHANGED persons

show_person(w) ==
    /\ Handle(w, "show_person", Return(<<"keyed", Get(args[w], "name"), Get(args[w], "age")>>))
    /\ UNCHANGED persons

show_person_by_id(w) ==
    LET out == ShowPersonById(persons, Val(Get(args[w], "person_id")))
    IN  /\ Handle(w, "show_person_by_id", out.result)
        /\ persons' = out.persons

update_person(w) ==
    /\ Handle(w, "update_person", UpdatePerson(Get(args[w], "person"), Get(args[w], "location")))
    /\ UNCHANGED persons

login(w) ==
    /\ Handle(w, "login", Login(Get(args[w], "username")))
    /\ UNCHANGED persons

contact(w) ==
    /\ Handle(w, "contact", Return(Get(args[w], "user_agent")))
    /\ UNCHANGED persons

post_image(w) ==
    /\ Handle(w, "post_image", Return(ImageInfo("Filename", Get(args[w], "image"))))
    /\ UNCHANGED persons

post_multiple_images(w) ==
    /\ LET images == Val(Get(args[w], "images"))
       IN  Handle(w, "post_multiple_images",
                  Return(ListV([i \in 1..Len(images) |-> ImageInfo("filename", images[i])])))
    /\ UNCHANGED persons

pt_one_home(w) ==
    /\ Handle(w, "pt_one.home", Return(ObjV(<< <<"Hello", TextV("World")>> >>)))
    /\ UNCHANGED persons

pt_one_twitter(w) ==
    /\ Handle(w, "pt_one.twitter",
              Return(ObjV(<< <<"twitter", StrV(TwitterPrefix \o Val(Get(args[w], "id")) \o TwitterSuffix)>> >>)))
    /\ UNCHANGED persons

pt_one_create_person(w) ==
    /\ Handle(w, "pt_one.create_person", Return(Get(args[w], "person")))
    /\ UNCHANGED persons

pt_one_show_person(w) ==
    /\ Handle(w, "pt_one.show_person", Return(<<"keyed", Get(args[w], "name"), Get(args[w], "age")>>))
    /\ UNCHANGED persons

pt_one_show_person_by_id(w) ==
    /\ Handle(w, "pt_one.show_person_by_id",
              Return(<<"keyed", Get(args[w], "person_id"), TextV("It exists!")>>))
    /\ UNCHANGED persons

pt_one_update_person(w) ==
    /\ Handle(w, "pt_one.update_person", UpdatePerson(Get(args[w], "person"), Get(args[w], "location")))
    /\ UNCHANGED persons

\* the response is sent and the worker is free again
Reply(w) ==
    /\ pc[w] = "done"
    /\ pc' = [pc EXCEPT ![w] = "idle"]
    /\ req' = [req EXCEPT ![w] = NoRequest]
    /\ errors' = [errors EXCEPT ![w] = <<>>]
    /\ args' = [args EXCEPT ![w] = <<>>]
    /\ resp' = [resp EXCEPT ![w] = NoResponse]
    /\ ran' = [ran EXCEPT ![w] = FALSE]
    /\ UNCHANGED <<persons, seen>>

\* the observer notes the first completed request it looks at
Observe(w) ==
    /\ pc[w] = "done"
    /\ seen = NoSeen
    /\ seen' = <<req[w], resp[w]>>
    /\ UNCHANGED <<persons, pc, req, errors, args, resp, ran>>

Step(w) ==
    \/ Validate(w)
    \/ home(w)
    \/ create_person(w)
    \/ show_person(w)
    \/ show_person_by_id(w)
    \/ update_person(w)
    \/ login(w)
    \/ contact(w)
    \/ post_image(w)
    \/ post_multiple_images(w)
    \/ pt_one_home(w)
    \/ pt_one_twitter(w)
    \/ pt_one_create_person(w)
    \/ pt_one_show_person(w)
    \/ pt_one_show_person_by_id(w)
    \/ pt_one_update_person(w)
    \/ Reply(w)

(***************************************************************************)
(* The requests the model sends                                            *)
(***************************************************************************)
ExampleAge == 25
ExampleId == 123
KnownMax == 5

RECURSIVE NatStr(_)
NatStr(n) == IF n < 10 THEN <<Digits[n + 1]>> ELSE Append(NatStr(n \div 10), Digits[(n % 10) + 1])
IntStr(n) == IF n < 0 THEN <<"-">> \o NatStr(0 - n) ELSE NatStr(n)

Miguel == <<"M", "i", "g", "u", "e", "l">>
Torres == <<"T", "o", "r", "r", "e", "s">>
Green == <<"g", "r", "e", "e", "n">>
Mail == <<"m", "@", "x", ".", "c", "l">>
\* "12345678" when n = 8
Pwd(n) == [i \in 1..n |-> Digits[(i % 10) + 1]]

Ages == (AgeGt - Slack)..(AgeLe + Slack)
NameLens == 0..(NameMax + Slack)
PwdLens == 0..(PasswordMin + Slack)
Ids == ((PersonIdGt - Slack)..(KnownMax + Slack)) \cup {ExampleId}

\* a JSON object or a form: the pairs whose value was supplied
MkObj(pairs) == SelectSeq(pairs, LAMBDA e : e[2] # Absent)

PersonObj(fn, ln, age, hc, m, pw) ==
    MkObj(<< <<"first_name", fn>>, <<"last_name", ln>>, <<"age", age>>,
             <<"hair_color", hc>>, <<"is_married", m>>, <<"password", pw>> >>)

ExamplePerson == PersonObj(StrV(Miguel), StrV(Torres), IntV(ExampleAge), Absent, Absent, StrV(Pwd(PasswordMin)))

PersonSweep ==
    {PersonObj(StrV(Miguel), StrV(Torres), IntV(a), Absent, Absent, StrV(Pwd(PasswordMin))) : a \in Ages}
    \cup {PersonObj(StrV(Rep("a", n)), StrV(Torres), IntV(ExampleAge), Absent, Absent, StrV(Pwd(PasswordMin))) : n \in NameLens}
    \cup {PersonObj(StrV(Miguel), StrV(Rep("b", n)), IntV(ExampleAge), Absent, Absent, StrV(Pwd(PasswordMin))) : n \in NameLens}
    \cup {PersonObj(StrV(Miguel), StrV(Torres), IntV(ExampleAge), Absent, Absent, StrV(Pwd(n))) : n \in PwdLens}

PersonCross ==
    {PersonObj(fn, ln, age, hc, m, pw) :
        fn \in {Absent, StrV(Miguel), StrV(Rep("a", NameMax + 1))},
        ln \in {Absent, StrV(Torres)},
        age \in {Absent, Null, IntV(AgeGt), IntV(ExampleAge), IntV(AgeLe), StrV(<<"x">>), StrV(<<"3", "0">>)},
        hc \in {Absent, Null, StrV(Black), StrV(Green)},
        m \in {Absent, Null, BoolV(TRUE)},
        pw \in {Absent, StrV(Pwd(PasswordMin - 1)), StrV(Pwd(PasswordMin))}}

\* the keys in another order, and a key no schema declares
PersonOdd ==
    {Reverse(PersonObj(StrV(Miguel), StrV(Torres), IntV(ExampleAge), hc, Absent, StrV(Pwd(PasswordMin)))) :
        hc \in {Absent, StrV(Red)}}
    \cup {Append(ExamplePerson, <<"city", StrV(Red)>>), Append(ExamplePerson, <<"nickname", StrV(Red)>>)}

PersonBodies == PersonSweep \cup PersonCross \cup PersonOdd

LocationObj(city, state, country) ==
    MkObj(<< <<"city", city>>, <<"state", state>>, <<"country", country>> >>)
ExampleLocation == LocationObj(StrV(Red), StrV(Green), StrV(Black))

Request(op) == [NoRequest EXCEPT !.op = op]

CreateRequests(op) ==
    {[Request(op) EXCEPT !.body = b] : b \in {Absent, StrV(<<"x">>)} \cup {ObjV(m) : m \in PersonBodies}}

UpdateRequests(op) ==
    {[Request(op) EXCEPT !.path = << <<"person_id", StrV(id)>> >>, !.body = b] :
        id \in {IntStr(PersonIdGt), IntStr(ExampleId), <<"x">>},
        b \in {Absent} \cup
              {ObjV(MkObj(<< <<"person", pv>>, <<"location", lv>> >>)) :
                  pv \in {Absent, ObjV(ExamplePerson), ObjV(Append(ExamplePerson, <<"city", StrV(Red)>>)),
                          ObjV(PersonObj(StrV(Miguel), StrV(Torres), IntV(AgeLe), StrV(Red), BoolV(FALSE), StrV(Pwd(PasswordMin)))),
                          ObjV(PersonObj(StrV(Miguel), Absent, IntV(AgeGt), Absent, Absent, Absent))},
                  lv \in {Absent, ObjV(ExampleLocation), ObjV(Append(ExampleLocation, <<"age", IntV(AgeGt)>>)),
                          ObjV(LocationObj(Absent, StrV(Green), Null))}}}

DetailRequests(op) ==
    {[Request(op) EXCEPT !.path = << <<"person_id", StrV(id)>> >>] :
        id \in {IntStr(n) : n \in Ids} \cup {<<"x">>, <<"-">>}}

ShowPersonRequests(op) ==
    {[Request(op) EXCEPT !.query = MkObj(<< <<"name", name>>, <<"age", age>> >>)] :
        name \in {Absent} \cup {StrV(Rep("n", k)) : k \in NameLens},
        age \in {Absent, StrV(IntStr(ExampleAge))}}

LoginRequests ==
    {[Request("login") EXCEPT !.form = MkObj(<< <<"username", u>>, <<"password", pw>> >>)] :
        u \in {Absent} \cup {StrV(Rep("u", k)) : k \in 0..(UsernameMax + Slack)},
        pw \in {Absent, StrV(<<>>), StrV(Pwd(PasswordMin))}}

ContactRequest(fn, ln, email, message, agent, ads) ==
    [Request("contact") EXCEPT
        !.form = MkObj(<< <<"first_name", fn>>, <<"last_name", ln>>, <<"email", email>>, <<"message", message>> >>),
        !.header = MkObj(<< <<"user_agent", agent>> >>),
        !.cookie = MkObj(<< <<"ads", ads>> >>)]

ContactRequests ==
    {ContactRequest(StrV(Miguel), StrV(Torres), StrV(Mail), StrV(Rep("m", k)), Absent, Absent) :
        k \in 0..(MessageMin + Slack)}
    \cup {ContactRequest(StrV(Rep("a", k)), StrV(Torres), StrV(Mail), StrV(Rep("m", MessageMin)), Absent, Absent) :
        k \in 0..(ContactNameMax + Slack)}
    \cup {ContactRequest(StrV(Miguel), StrV(Rep("b", k)), StrV(Mail), StrV(Rep("m", MessageMin)), Absent, Absent) :
        k \in 0..(ContactNameMax + Slack)}
    \cup {ContactRequest(fn, ln, email, message, agent, ads) :
        fn \in {Absent, StrV(<<>>), StrV(Miguel), StrV(Rep("a", ContactNameMax + 1))},
        ln \in {Absent, StrV(Torres), StrV(Rep("b", ContactNameMax + 1))},
        email \in {Absent, StrV(Mail), StrV(Red)},
        message \in {Absent, StrV(Rep("m", MessageMin - 1)), StrV(Rep("m", MessageMin))},
        agent \in {Absent, StrV(<<"m", "e">>)},
        ads \in {Absent, StrV(Red)}}

FileV(name, format, nbytes) == <<"file", <<name, format, nbytes>>>>
Files == {FileV("a.png", "image/png", n) : n \in {0, 5, 6, 128, 384, KiB, KiB + 512}}
             \cup {FileV("b.txt", "text/plain", Slack)}

ImageRequests ==
    {[Request("post_image") EXCEPT !.form = MkObj(<< <<"image", f>> >>)] : f \in Files \cup {Absent, StrV(Red)}}

RECURSIVE ListsUpTo(_, _)
ListsUpTo(S, n) ==
    IF n = 0 THEN {<<>>}
    ELSE ListsUpTo(S, n - 1) \cup {Append(l, x) : l \in ListsUpTo(S, n - 1), x \in S}

MultipleImagesRequests ==
    {[Request("post_multiple_images") EXCEPT !.form = MkObj(<< <<"images", f>> >>)] :
        f \in {Absent} \cup {ListV(l) : l \in ListsUpTo({FileV("a.png", "image/png", 128), FileV("b.txt", "text/plain", KiB)}, MaxImages)}}

TwitterRequests ==
    {[Request("pt_one.twitter") EXCEPT !.path = << <<"id", StrV(id)>> >>] : id \in {IntStr(ExampleId), <<"x">>}}

Requests ==
    {Request("home"), Request("pt_one.home")}
    \cup CreateRequests("create_person") \cup CreateRequests("pt_one.create_person")
    \cup UpdateRequests("update_person") \cup UpdateRequests("pt_one.update_person")
    \cup DetailRequests("show_person_by_id") \cup DetailRequests("pt_one.show_person_by_id")
    \cup ShowPersonRequests("show_person") \cup ShowPersonRequests("pt_one.show_person")
    \cup LoginRequests \cup ContactRequests \cup ImageRequests \cup MultipleImagesRequests
    \cup TwitterRequests

\* the requests of the runs with two workers: a few of every operation
SharedRequests ==
    {Request("home"), Request("pt_one.home"),
     [Request("create_person") EXCEPT !.body = ObjV(ExamplePerson)],
     [Request("pt_one.create_person") EXCEPT !.body = ObjV(ExamplePerson)],
     [Request("update_person") EXCEPT !.path = << <<"person_id", StrV(IntStr(ExampleId))>> >>,
                                      !.body = ObjV(<< <<"person", ObjV(ExamplePerson)>>, <<"location", ObjV(ExampleLocation)>> >>)],
     [Request("pt_one.update_person") EXCEPT !.path = << <<"person_id", StrV(IntStr(ExampleId))>> >>,
                                      !.body = ObjV(<< <<"person", ObjV(ExamplePerson)>>, <<"location", ObjV(ExampleLocation)>> >>)],
     [Request("show_person") EXCEPT !.query = << <<"age", StrV(IntStr(ExampleAge))>> >>],
     [Request("pt_one.show_person") EXCEPT !.query = << <<"age", StrV(IntStr(ExampleAge))>> >>],
     [Request("pt_one.show_person_by_id") EXCEPT !.path = << <<"person_id", StrV(IntStr(ExampleId))>> >>],
     [Request("login") EXCEPT !.form = << <<"username", StrV(Miguel)>>, <<"password", StrV(Pwd(PasswordMin))>> >>],
     ContactRequest(StrV(Miguel), StrV(Torres), StrV(Mail), StrV(Rep("m", MessageMin)), Absent, Absent),
     [Request("post_image") EXCEPT !.form = << <<"image", FileV("a.png", "image/png", 128)>> >>],
     [Request("post_multiple_images") EXCEPT !.form = << <<"images", ListV(<<FileV("a.png", "image/png", 128)>>)>> >>],
     [Request("pt_one.twitter") EXCEPT !.path = << <<"id", StrV(IntStr(ExampleId))>> >>]}
    \cup {[Request("show_person_by_id") EXCEPT !.path = << <<"person_id", StrV(IntStr(n))>> >>] :
            n \in (PersonIdGt - 1)..(PersonIdGt + Slack - 1)}
    \cup {[Request("show_person_by_id") EXCEPT !.path = << <<"person_id", StrV(IntStr(ExampleId))>> >>]}

(***************************************************************************)
(* Specifications                                                          *)
(***************************************************************************)
\* one worker serving every request of Requests, one after the other
Next == (\E r \in Requests : Receive(1, r)) \/ Step(1)

Spec == Init /\ [][Next]_vars

\* two workers serving the requests of SharedRequests in any interleaving
NextShared ==
    \E w \in Workers : (\E r \in SharedRequests : Receive(w, r)) \/ Step(w) \/ Observe(w)

SpecShared == Init /\ [][NextShared]_vars

(***************************************************************************)
(* Properties                                                              *)
(***************************************************************************)
Done(w, op) == pc[w] = "done" /\ req[w].op = op
Names(schema) == [i \in 1..Len(schema) |-> schema[i].name]
Range(q) == {q[i] : i \in 1..Len(q)}
\* the kinds of the failures reported at a location
ErrKinds(errs, loc) == {errs[i][2] : i \in {j \in 1..Len(errs) : errs[j][1] = loc}}
PathId(n) == << <<"person_id", StrV(IntStr(n))>> >>

Fails(w) == SolveDependencies(req[w].op, req[w]).errors # <<>>

\* C2: a request with a validation failure never enters the handler body and
\* ends with status 422 carrying the failures; a handler body runs only on a
\* request all of whose parameters validated.
C2_NoHandlerOnFailure ==
    \A w \in Workers :
        pc[w] # "idle" =>
            /\ Fails(w) =>
                  /\ ~ran[w]
                  /\ pc[w] \in {"received", "done"}
                  /\ pc[w] = "done" =>
                        /\ resp[w].status = 422
                        /\ resp[w].body = <<"errors", SolveDependencies(req[w].op, req[w]).errors>>
            /\ ran[w] => ~Fails(w) /\ errors[w] = <<>>
            /\ pc[w] = "validated" => ~Fails(w)

C2_Witness ==
    \E w \in Workers :
        /\ Done(w, "update_person") /\ Fails(w) /\ ~ran[w]
        /\ resp[w].status = 422
        /\ Len(errors[w]) >= 3
        /\ ErrKinds(errors[w], <<"path", "person_id">>) # {}
        /\ ErrKinds(errors[w], <<"body", "person", "last_name">>) # {}

\* C3: every declaration of the Person age accepts an integer age exactly
\* when 0 < age <= 115.
C3_AgeRangeEveryDeclaration ==
    \A w \in Workers :
        /\ pc[w] = "done"
        /\ req[w].op \in {"create_person", "pt_one.create_person"}
        /\ Tag(req[w].body) = "obj"
        /\ Tag(Get(Val(req[w].body), "age")) = "int"
        => LET age == Val(Get(Val(req[w].body), "age"))
           IN  (ErrKinds(errors[w], <<"body", "age">>) = {}) <=> (0 < age /\ age <= 115)

\* C3, for the declaration of main.py alone
C3_AgeRangeMain ==
    \A w \in Workers :
        /\ Done(w, "create_person")
        /\ Tag(req[w].body) = "obj"
        /\ Tag(Get(Val(req[w].body), "age")) = "int"
        => LET age == Val(Get(Val(req[w].body), "age"))
           IN  (ErrKinds(errors[w], <<"body", "age">>) = {}) <=> (0 < age /\ age <= 115)

\* C4: the detail operation answers an identifier > 0 with "found" exactly
\* when it is one of 1..5 and with 404 otherwise; an identifier <= 0 is a
\* validation failure (422), never 404; 404 comes only from the handler.
C4_DetailById ==
    \A w \in Workers : \A n \in Ids :
        Done(w, "show_person_by_id") /\ req[w].path = PathId(n) =>
            /\ n > 0 /\ n \in 1..5 =>
                  resp[w] = Response(Ok, <<"keyed", IntV(n), TextV("It exists!")>>)
            /\ n > 0 /\ n \notin 1..5 =>
                  resp[w].status = NotFound /\ resp[w].body[1] = "detail"
            /\ n <= 0 =>
                  /\ resp[w].status = 422
                  /\ ~ran[w]
                  /\ ErrKinds(errors[w], <<"path", "person_id">>) # {}
            /\ resp[w].status = NotFound => ran[w] /\ errors[w] = <<>>
            /\ resp[w].status = 422 => ~ran[w]

C4_Witness ==
    \E w \in Workers :
        /\ Done(w, "show_person_by_id")
        /\ req[w].path = PathId(ExampleId)
        /\ ran[w]
        /\ resp[w].status = NotFound

\* C5: a login request that passed input validation is answered with exactly
\* {username: the submitted username, message: "Login Succesfully!"}.
C5_LoginAlwaysSucceeds ==
    \A w \in Workers :
        Done(w, "login") /\ ~Fails(w) =>
            resp[w] = Response(Ok, ObjV(<< <<"username", Get(req[w].form, "username")>>,
                                           <<"message", TextV("Login Succesfully!")>> >>))

\* the failures a string of length n must produce under the bounds lo..hi
\* (an undeclared bound is the empty set): none inside, a length violation outside
LengthKinds(n, lo, hi) ==
    IF \E b \in lo : n < b THEN {"value_error.any_str.min_length"}
    ELSE IF \E b \in hi : n > b THEN {"value_error.any_str.max_length"}
    ELSE {}

\* the same, where an empty value of a required form field is a missing field
FormLengthKinds(n, lo, hi) == IF n = 0 THEN {"value_error.missing"} ELSE LengthKinds(n, lo, hi)

SuppliedStr(m, k) == HasKey(m, k) /\ Tag(Get(m, k)) = "str"

\* the length rule on the body fields of Person and on the query parameter name
LengthRuleBodyAndQuery ==
    \A w \in Workers :
        /\ pc[w] = "done" /\ req[w].op \in {"create_person", "pt_one.create_person"} /\ Tag(req[w].body) = "obj" =>
              LET m == Val(req[w].body)
              IN  /\ \A f \in {"first_name", "last_name"} :
                        SuppliedStr(m, f) =>
                            ErrKinds(errors[w], <<"body", f>>) = LengthKinds(Len(Val(Get(m, f))), {1}, {50})
                  /\ req[w].op = "create_person" /\ SuppliedStr(m, "password") =>
                        ErrKinds(errors[w], <<"body", "password">>) = LengthKinds(Len(Val(Get(m, "password"))), {8}, {})
        /\ pc[w] = "done" /\ req[w].op \in {"show_person", "pt_one.show_person"} /\ SuppliedStr(req[w].query, "name") =>
              ErrKinds(errors[w], <<"query", "name">>) = LengthKinds(Len(Val(Get(req[w].query, "name"))), {1}, {50})

\* C6 as claimed: a string field is accepted exactly when its length is within
\* the declared bounds, and outside them it fails with a length violation;
\* the contact message is rejected below 20 characters and accepted at 20.
C6_LengthBoundsAsClaimed ==
    /\ LengthRuleBodyAndQuery
    /\ \A w \in Workers :
          Done(w, "contact") =>
              /\ \A f \in {"first_name", "last_name"} :
                    SuppliedStr(req[w].form, f) =>
                        ErrKinds(errors[w], <<"body", f>>) = LengthKinds(Len(Val(Get(req[w].form, f))), {1}, {20})
              /\ SuppliedStr(req[w].form, "message") =>
                    ErrKinds(errors[w], <<"body", "message">>) = LengthKinds(Len(Val(Get(req[w].form, "message"))), {20}, {})

\* C6, amended: as claimed, except that an empty value of a required form
\* field is reported as a missing field, not as a length violation.
C6_LengthBounds ==
    /\ LengthRuleBodyAndQuery
    /\ \A w \in Workers :
          Done(w, "contact") =>
              /\ \A f \in {"first_name", "last_name"} :
                    SuppliedStr(req[w].form, f) =>
                        ErrKinds(errors[w], <<"body", f>>) = FormLengthKinds(Len(Val(Get(req[w].form, f))), {1}, {20})
              /\ SuppliedStr(req[w].form, "message") =>
                    /\ ErrKinds(errors[w], <<"body", "message">>)
                         = FormLengthKinds(Len(Val(Get(req[w].form, "message"))), {20}, {})
                    /\ Len(Val(Get(req[w].form, "message"))) < 20 => resp[w].status = 422

\* a contact message of exactly 20 characters is accepted
C6_Witness ==
    \E w \in Workers :
        /\ Done(w, "contact") /\ ran[w]
        /\ SuppliedStr(req[w].form, "message")
        /\ Len(Val(Get(req[w].form, "message"))) = 20
        /\ resp[w].status = Ok

\* the request with every form field but f replaced by a valid value
Isolated(request, f) ==
    [request EXCEPT !.form =
        MkObj([i \in 1..4 |->
            LET k == <<"first_name", "last_name", "email", "message">>[i]
                good == <<StrV(Miguel), StrV(Torres), StrV(Mail), StrV(Rep("m", 20))>>[i]
            IN  <<k, IF k = f THEN Get(request.form, f) ELSE good>>])]

ContactFields == {"first_name", "last_name", "email", "message"}

\* C7: the failures of a request are those of all its fields together: the
\* reported set is the union of what each field produces on its own, a
\* required field without a value is reported missing whatever the other
\* fields hold, and no field's outcome depends on another field.
C7_FailuresAggregated ==
    \A w \in Workers :
        Done(w, "contact") =>
            /\ Range(errors[w])
                 = UNION {Range(BindParam(ContactParams[i], req[w], FALSE).errors) : i \in 1..Len(ContactParams)}
            /\ \A f \in ContactFields :
                  /\ ~HasKey(req[w].form, f) => <<<<"body", f>>, "value_error.missing">> \in Range(errors[w])
                  /\ ErrKinds(errors[w], <<"body", f>>)
                       = ErrKinds(SolveDependencies("contact", Isolated(req[w], f)).errors, <<"body", f>>)
            /\ (errors[w] # <<>>) <=> ~ran[w]

\* one field missing, another invalid, a third too long: all three reported
C7_Witness ==
    \E w \in Workers :
        /\ Done(w, "contact")
        /\ ~HasKey(req[w].form, "first_name")
        /\ ErrKinds(errors[w], <<"body", "first_name">>) = {"value_error.missing"}
        /\ ErrKinds(errors[w], <<"body", "last_name">>) = {"value_error.any_str.max_length"}
        /\ ErrKinds(errors[w], <<"body", "email">>) = {"value_error.email"}
        /\ ErrKinds(errors[w], <<"body", "message">>) = {"value_error.any_str.min_length"}

\* C8: the result of update-person has only keys of Person or of Location, a
\* key of Location carries Location's value, every other key Person's, and
\* the keys stand in declaration order: Person's, then Location's.
C8_MergedEntity ==
    \A w \in Workers :
        \A op \in {"update_person", "pt_one.update_person"} :
            Done(w, op) /\ ran[w] =>
                LET schema == IF op = "update_person" THEN Person ELSE PersonPtOne
                    person == Val(Get(args[w], "person"))
                    location == Val(Get(args[w], "location"))
                    out == Val(resp[w].body)
                IN  /\ resp[w].status = Ok
                    /\ Tag(resp[w].body) = "obj"
                    /\ Range(Keys(out)) \subseteq Range(Names(schema)) \cup Range(Names(Location))
                    /\ \A k \in Range(Keys(out)) :
                          Get(out, k) = IF k \in Range(Names(Location)) THEN Get(location, k) ELSE Get(person, k)
                    /\ Keys(out) = Names(schema)
                                     \o SelectSeq(Names(Location), LAMBDA k : k \notin Range(Names(schema)))

C8_Witness ==
    \E w \in Workers :
        /\ Done(w, "update_person") /\ ran[w]
        /\ Keys(Val(resp[w].body)) = <<"first_name", "last_name", "age", "hair_color", "is_married",
                                       "password", "city", "state", "country">>
        /\ Get(Val(resp[w].body), "city") = StrV(Red)
        /\ HasKey(Val(Get(Val(req[w].body), "person")), "city")

\* C9: projecting a validated Person through PersonOut twice gives the same
\* mapping (keys, order, values) as projecting it once.
C9_ProjectionIdempotent ==
    \A w \in Workers :
        Done(w, "create_person") /\ ran[w] =>
            LET once == Project(PersonOut, Val(Get(args[w], "person")))
            IN  /\ Project(PersonOut, once) = once
                /\ ValidateModel(PersonOut, once, <<"response">>).errors = <<>>
                /\ Len(once) = Len(PersonOut)

C9_Witness ==
    \E w \in Workers :
        /\ Done(w, "create_person") /\ ran[w]
        /\ Get(Val(resp[w].body), "hair_color") = StrV(Black)
        /\ Get(Val(resp[w].body), "is_married") = BoolV(TRUE)
        /\ Project(PersonOut, Val(resp[w].body)) = Val(resp[w].body)

\* C10: whatever requests are served, in whatever interleaving, persons stays
\* [1,2,3,4,5], and a request seen answered once is answered the same way
\* whenever it is served again.
C10_NoSharedMutableState ==
    /\ persons = <<1, 2, 3, 4, 5>>
    /\ \A w \in Workers : pc[w] = "done" /\ req[w] = seen[1] => resp[w] = seen[2]

\* both workers have answered the request that was observed earlier
C10_Witness ==
    /\ seen[1].op = "show_person_by_id"
    /\ seen[2].status = Ok
    /\ \A w \in Workers : pc[w] = "done" /\ req[w] = seen[1] /\ ran[w]
====
